---------------------------- MODULE Spec2Model ----------------------------
(***************************************************************************)
(* Model of package plan of plan-change-capturer: the explain-text parser  *)
(* (ParseText and its helpers), the tree builder's child rule              *)
(* (findChildRowNo), the operator classifier (MatchOpType) and the plan    *)
(* comparator (Compare / compare).                                         *)
(*                                                                         *)
(* Go strings are modelled as sequences of one-character strings, so that  *)
(* trimming, splitting, lower-casing and substring search are computed and *)
(* not assumed.  In the tree builder a field is a sequence of runes; the   *)
(* box-drawing runes are written VERT, TEE and ELBOW.                        *)
(***************************************************************************)
EXTENDS Naturals, Sequences, FiniteSets, TLC

VARIABLES pc,
          p1, p2, work, visited, reason, same,
          opID, opType,
          sql, explainText, parsed,
          rows, parentRowNo, childRowNo, built

cmpVars   == <<p1, p2, work, visited, reason, same>>
matchVars == <<opID, opType>>
parseVars == <<sql, explainText, parsed>>
treeVars  == <<rows, parentRowNo, childRowNo, built>>
vars      == <<pc, cmpVars, matchVars, parseVars, treeVars>>

(***************************************************************************)
(* Values of the variables a specification does not use.                   *)
(***************************************************************************)
NoPlan == [SQL |-> "", Root |-> "none"]

IdleCompare == /\ p1 = NoPlan /\ p2 = NoPlan
               /\ work = <<>> /\ visited = <<>>
               /\ reason = <<>> /\ same = FALSE

IdleMatch == opID = <<>> /\ opType = "none"

IdleParse == sql = <<>> /\ explainText = <<>> /\ parsed = [status |-> "none"]

IdleTree == /\ rows = <<>> /\ parentRowNo = 0
            /\ childRowNo = [status |-> "none"] /\ built = [status |-> "none"]

(***************************************************************************)
(* Generic helpers.                                                        *)
(***************************************************************************)
Min(a, b) == IF a <= b THEN a ELSE b

RECURSIVE Flatten(_)
Flatten(ss) == IF ss = <<>> THEN <<>> ELSE Head(ss) \o Flatten(Tail(ss))

Range(s) == {s[i] : i \in 1..Len(s)}

IsPrefix(s, t) == Len(s) <= Len(t) /\ s = SubSeq(t, 1, Len(s))

(***************************************************************************)
(*                      plan.go : the plan data model                      *)
(***************************************************************************)
OpTypeUnknown     == "OpTypeUnknown"
OpTypeHashJoin    == "OpTypeHashJoin"
OpTypeIndexJoin   == "OpTypeIndexJoin"
OpTypeMergeJoin   == "OpTypeMergeJoin"
OpTypeSelection   == "OpTypeSelection"
OpTypeProjection  == "OpTypeProjection"
OpTypeTableReader == "OpTypeTableReader"
OpTypeTableScan   == "OpTypeTableScan"
OpTypeIndexReader == "OpTypeIndexReader"
OpTypeIndexScan   == "OpTypeIndexScan"
OpTypeIndexLookup == "OpTypeIndexLookup"
\* returned by MatchOpType (parse.go:227); not among the constants of plan.go
OpTypePointGet    == "OpTypePointGet"

TaskTypeRoot    == "TaskTypeRoot"
TaskTypeTiKV    == "TaskTypeTiKV"
TaskTypeTiFlash == "TaskTypeTiFlash"

(***************************************************************************)
(* An Operator interface value.  kind is its dynamic type: "nil" for the   *)
(* nil interface (the Root of the zero Plan{} that ParseText and Parse     *)
(* return beside an error), else the struct embedding BaseOp.  opType is   *)
(* BaseOp.opType, a field of its own: nothing in the types ties it to the  *)
(* struct that carries it.  Table and Index are "" on the structs that do  *)
(* not have them.                                                          *)
(***************************************************************************)
NilOp == [kind |-> "nil", id |-> "", opType |-> OpTypeUnknown,
          task |-> TaskTypeRoot, Table |-> "", Index |-> "", children |-> <<>>]

BaseOp(id, kind, opTy, task, table, index, children) ==
    [kind |-> kind, id |-> id, opType |-> opTy, task |-> task,
     Table |-> table, Index |-> index, children |-> children]

Plan(s, root) == [SQL |-> s, Root |-> root]

(***************************************************************************)
(*                    parse.go : Compare and compare                       *)
(***************************************************************************)
\* fmt.Sprintf("%v and %v have different types", id1, id2): the pieces in order
ReasonTypes(id1, id2) == <<id1, " and ", id2, " have different types">>

\* fmt.Sprintf("%v and %v have different children lengths", id1, id2)
ReasonChildren(id1, id2) == <<id1, " and ", id2, " have different children lengths">>

\* fmt.Sprintf("%v:%v, %v:%v", t1.ID(), t1.Table, t2.ID(), t2.Table)
ReasonTables(t1, t2) == <<t1.id, ":", t1.Table, ", ", t2.id, ":", t2.Table>>

ReasonSQL == <<"differentiate SQLs">>

(***************************************************************************)
(* compare, lines 44-68: what one call decides about its own pair before   *)
(* it recurses.  "panic" is a run-time panic: a method call on a nil       *)
(* interface (line 44) or a failed type assertion (lines 54 and 60).       *)
(***************************************************************************)
compareNode(op1, op2) ==
    IF op1.kind = "nil" \/ op2.kind = "nil"
    THEN [out |-> "panic", reason |-> <<>>]
    ELSE IF op1.opType # op2.opType \/ op1.task # op2.task
    THEN [out |-> "diff", reason |-> ReasonTypes(op1.id, op2.id)]
    ELSE IF Len(op1.children) # Len(op2.children)
    THEN [out |-> "diff", reason |-> ReasonChildren(op1.id, op2.id)]
    ELSE IF op1.opType = OpTypeTableScan
    THEN IF op1.kind # "TableScanOp" \/ op2.kind # "TableScanOp"
         THEN [out |-> "panic", reason |-> <<>>]
         ELSE IF op1.Table # op2.Table
         THEN [out |-> "diff", reason |-> ReasonTables(op1, op2)]
         ELSE [out |-> "match", reason |-> <<>>]
    ELSE IF op1.opType = OpTypeIndexScan
    THEN IF op1.kind # "IndexScanOp" \/ op2.kind # "IndexScanOp"
         THEN [out |-> "panic", reason |-> <<>>]
         ELSE IF op1.Table # op2.Table \/ op1.Index # op2.Index
         THEN [out |-> "diff", reason |-> ReasonTables(op1, op2)]
         ELSE [out |-> "match", reason |-> <<>>]
    ELSE [out |-> "match", reason |-> <<>>]

\* the pairs c1[i], c2[i] of the loop of line 69, in the order of i
ChildPairs(op1, op2) ==
    [i \in 1..Len(op1.children) |-> <<op1.children[i], op2.children[i]>>]

(***************************************************************************)
(* The calls still to be made, next first.  The loop of lines 69-73 calls  *)
(* compare on a child pair and finishes that call, its own recursion       *)
(* included, before it takes the next pair: the pairs of the node just     *)
(* compared go in front of the pairs that callers further up still hold.   *)
(***************************************************************************)
\* a bug of the walk: the children of the node just compared wait behind the
\* pairs already pending, which visits the trees level by level
PendingCallsBreadthFirst(pairs, rest) == rest \o pairs

PendingCalls(pairs, rest) == pairs \o rest

\* Compare, lines 36-41
Compare ==
    /\ pc = "Compare"
    /\ IF p1.SQL # p2.SQL
       THEN /\ reason' = ReasonSQL
            /\ same' = FALSE
            /\ pc' = "returned"
            /\ UNCHANGED work
       ELSE /\ work' = <<<<p1.Root, p2.Root>>>>
            /\ pc' = "compare"
            /\ UNCHANGED <<reason, same>>
    /\ UNCHANGED <<p1, p2, visited, matchVars, parseVars, treeVars>>

\* one call of compare, lines 43-75
compare ==
    /\ pc = "compare"
    /\ work # <<>>
    /\ LET op1 == Head(work)[1]
           op2 == Head(work)[2]
           res == compareNode(op1, op2)
           todo == PendingCalls(ChildPairs(op1, op2), Tail(work))
       IN /\ visited' = Append(visited, Head(work))
          /\ CASE res.out = "panic" ->
                    /\ pc' = "panic"
                    /\ UNCHANGED <<work, reason, same>>
               [] res.out = "diff" ->
                    /\ reason' = res.reason
                    /\ same' = FALSE
                    /\ pc' = "returned"
                    /\ UNCHANGED work
               [] res.out = "match" /\ todo # <<>> ->
                    /\ work' = todo
                    /\ UNCHANGED <<pc, reason, same>>
               [] res.out = "match" /\ todo = <<>> ->
                    /\ work' = todo
                    /\ reason' = <<>>
                    /\ same' = TRUE
                    /\ pc' = "returned"
    /\ UNCHANGED <<p1, p2, matchVars, parseVars, treeVars>>

(***************************************************************************)
(* The plans compared.  Identifiers are unique within a plan and follow    *)
(* the rows of the report: <prefix>_<pre-order number>.                    *)
(***************************************************************************)
Tasks  == {TaskTypeRoot, TaskTypeTiKV}
Tables == {"t1", "t2"}
Indexes == {"i1", "i2"}

Label(kind, opTy, task, table, index) ==
    [kind |-> kind, opType |-> opTy, task |-> task, Table |-> table, Index |-> index]

SelectionLabels == {Label("SelectionOp", OpTypeSelection, t, "", "") : t \in Tasks}

TableScanLabels == {Label("TableScanOp", OpTypeTableScan, TaskTypeTiKV, tb, "") : tb \in Tables}

IndexScanLabels ==
    {Label("IndexScanOp", OpTypeIndexScan, TaskTypeTiKV, tb, ix) : tb \in Tables, ix \in Indexes}

\* a struct whose opType is not the one of its Go type
MismatchedLabels == {Label("SelectionOp", OpTypeTableScan, TaskTypeTiKV, "", ""),
                     Label("TableScanOp", OpTypeIndexScan, TaskTypeTiKV, "t1", "")}

LeafLabels == SelectionLabels \cup TableScanLabels \cup IndexScanLabels \cup MismatchedLabels

\* the labels of the leaves of the plans that have several leaves
SiblingLabels == {l \in LeafLabels : l.Table # "t2" /\ l.opType # OpTypeIndexScan}
                     \cup {Label("TableScanOp", OpTypeTableScan, TaskTypeTiKV, "t2", "")}

Node(pre, n, l, children) ==
    BaseOp(pre \o "_" \o ToString(n), l.kind, l.opType, l.task, l.Table, l.Index, children)

Roots(pre) ==
    {Node(pre, 1, l, <<>>) : l \in LeafLabels}
    \cup {Node(pre, 1, r, <<Node(pre, 2, l, <<>>)>>) : r \in SelectionLabels, l \in LeafLabels}
    \cup {Node(pre, 1, r, <<Node(pre, 2, l, <<>>), Node(pre, 3, m, <<>>)>>) :
             r \in SelectionLabels, l \in SiblingLabels, m \in SiblingLabels}
    \cup {Node(pre, 1, r, <<Node(pre, 2, s, <<Node(pre, 3, l, <<>>)>>), Node(pre, 4, m, <<>>)>>) :
             r \in {Label("SelectionOp", OpTypeSelection, TaskTypeRoot, "", "")},
             s \in SelectionLabels, l \in SiblingLabels, m \in SiblingLabels}
    \cup {NilOp}

SQLs == {"select 1", "select 2"}

InitCompare ==
    /\ pc = "Compare"
    /\ p1 \in {Plan("select 1", r) : r \in Roots("A")}
    /\ p2 \in {Plan(s, r) : s \in SQLs, r \in Roots("A") \cup Roots("B")}
    /\ work = <<>> /\ visited = <<>> /\ reason = <<>> /\ same = FALSE
    /\ IdleMatch /\ IdleParse /\ IdleTree

NextCompare == Compare \/ compare

SpecCompare == InitCompare /\ [][NextCompare]_vars


(***************************************************************************)
(*                       Properties of the comparator                      *)
(***************************************************************************)
\* the walk of both trees in parallel, in depth-first pre-order, children
\* pairwise by position from the left, with nothing cut short
RECURSIVE ParallelPreorder(_, _)
ParallelPreorder(op1, op2) ==
    <<<<op1, op2>>>> \o
    Flatten([i \in 1..Min(Len(op1.children), Len(op2.children)) |->
                ParallelPreorder(op1.children[i], op2.children[i])])

\* the two operators of a pair differ in a field the comparison is about
PairDiffers(pair) ==
    LET a == pair[1]
        b == pair[2]
    IN \/ a.opType # b.opType
       \/ a.task # b.task
       \/ Len(a.children) # Len(b.children)
       \/ a.opType = OpTypeTableScan /\ a.Table # b.Table
       \/ a.opType = OpTypeIndexScan /\ (a.Table # b.Table \/ a.Index # b.Index)

\* every position the parallel walk reaches holds two equal operators
RECURSIVE TreesAgree(_, _)
TreesAgree(op1, op2) ==
    IF op1.kind = "nil" \/ op2.kind = "nil"
    THEN op1.kind = op2.kind
    ELSE /\ ~PairDiffers(<<op1, op2>>)
         /\ \A i \in 1..Len(op1.children) : TreesAgree(op1.children[i], op2.children[i])

\* every operator is of the struct its opType stands for, and no operator is nil
RECURSIVE WellTyped(_)
WellTyped(op) ==
    /\ op.kind # "nil"
    /\ op.opType = OpTypeTableScan => op.kind = "TableScanOp"
    /\ op.opType = OpTypeIndexScan => op.kind = "IndexScanOp"
    /\ \A i \in 1..Len(op.children) : WellTyped(op.children[i])

Finished == pc \in {"returned", "panic"}

(***************************************************************************)
(* C1: Compare(p1, p2) returns same = true with an empty reason if and     *)
(* only if the SQL texts are equal and every position of the parallel walk *)
(* holds operators equal in OpType, TaskLocation, child count, Table (on   *)
(* TableScan) and Table and Index (on IndexScan); so Compare(p, p) is      *)
(* same = true with an empty reason for every Plan p.                      *)
(***************************************************************************)
C1_SameIffTreesAgree ==
    Finished =>
        ((pc = "returned" /\ same /\ reason = <<>>)
            <=> (p1.SQL = p2.SQL /\ TreesAgree(p1.Root, p2.Root)))

\* C1 on the plans on which compare cannot panic: there the equivalence holds
SameIffTreesAgreeOnWellTyped ==
    (Finished /\ WellTyped(p1.Root) /\ WellTyped(p2.Root)) =>
        ((pc = "returned" /\ same /\ reason = <<>>)
            <=> (p1.SQL = p2.SQL /\ TreesAgree(p1.Root, p2.Root)))

(***************************************************************************)
(* C2: Compare reports the first difference and stops.  With differing SQL *)
(* texts it returns the SQL verdict and no operator is visited.  Otherwise *)
(* the operator pairs visited are an initial part of the parallel          *)
(* pre-order walk, every pair visited before the last one matched, and a   *)
(* returned "different" verdict carries the reason of the last pair        *)
(* visited, which differs: no later pair of the walk is visited.           *)
(***************************************************************************)
C2_FirstDifferenceOnly ==
    IF p1.SQL # p2.SQL
    THEN /\ visited = <<>>
         /\ pc = "returned" => (~same /\ reason = ReasonSQL)
    ELSE LET walk == ParallelPreorder(p1.Root, p2.Root)
             n == Len(visited)
         IN /\ IsPrefix(visited, walk)
            /\ \A j \in 1..n : PairDiffers(visited[j]) => (j = n /\ pc # "compare")
            /\ pc = "returned" => (same <=> (n >= 1 /\ ~PairDiffers(visited[n])))
            /\ (pc = "returned" /\ ~same) =>
                  /\ n >= 1
                  /\ PairDiffers(visited[n])
                  /\ visited[n][1].id \in Range(reason)
                  /\ visited[n][2].id \in Range(reason)
            /\ (pc = "returned" /\ same) => visited = walk

\* a difference is reported at the third pair of the walk while a later pair,
\* which differs too, is left unvisited
C2_Witness ==
    /\ pc = "returned" /\ ~same /\ p1.SQL = p2.SQL
    /\ Len(visited) = 3
    /\ LET walk == ParallelPreorder(p1.Root, p2.Root)
       IN /\ Len(walk) = 4
          /\ PairDiffers(walk[4])
          /\ visited[3][1].id = "A_3"

(***************************************************************************)
(* C3: Compare never raises an error: for every pair of Plan values it     *)
(* terminates and returns a verdict.                                       *)
(***************************************************************************)
C3_NeverRaises == pc # "panic"

(***************************************************************************)
(* C8: when Compare finds two operators that differ, the reason names the  *)
(* IDs of both and the field that differs: a TaskLocation mismatch is not  *)
(* reported as a type mismatch, an Index mismatch reports the two index    *)
(* names, a Table mismatch reports the two table names.                    *)
(***************************************************************************)
C8_ReasonNamesField ==
    (pc = "returned" /\ ~same /\ p1.SQL = p2.SQL) =>
        LET a == visited[Len(visited)][1]
            b == visited[Len(visited)][2]
            scans == a.opType = b.opType /\ a.task = b.task
                        /\ Len(a.children) = Len(b.children)
        IN /\ a.id \in Range(reason)
           /\ b.id \in Range(reason)
           /\ (a.opType = b.opType /\ a.task # b.task) =>
                 reason # ReasonTypes(a.id, b.id)
           /\ (scans /\ a.opType = OpTypeIndexScan /\ a.Index # b.Index) =>
                 (a.Index \in Range(reason) /\ b.Index \in Range(reason))
           /\ (scans /\ a.opType \in {OpTypeTableScan, OpTypeIndexScan} /\ a.Table # b.Table) =>
                 (a.Table \in Range(reason) /\ b.Table \in Range(reason))


(***************************************************************************)
(*                       Go strings as rune sequences                      *)
(***************************************************************************)
UpperLetters == <<"A", "B", "C", "D", "E", "F", "G", "H", "I", "J", "K", "L", "M", "N", "O", "P", "Q", "R", "S", "T", "U", "V", "W", "X", "Y", "Z">>

LowerLetters == <<"a", "b", "c", "d", "e", "f", "g", "h", "i", "j", "k", "l", "m", "n", "o", "p", "q", "r", "s", "t", "u", "v", "w", "x", "y", "z">>

LetterNo(letters, c) == CHOOSE k \in 1..Len(letters) : letters[k] = c

LowerOf == [c \in Range(UpperLetters) |-> LowerLetters[LetterNo(UpperLetters, c)]]

UpperOf == [c \in Range(LowerLetters) |-> UpperLetters[LetterNo(LowerLetters, c)]]

\* unicode.ToLower / unicode.ToUpper on the runes of the model
LowerRune(c) == IF c \in DOMAIN LowerOf THEN LowerOf[c] ELSE c

UpperRune(c) == IF c \in DOMAIN UpperOf THEN UpperOf[c] ELSE c

\* strings.ToLower
ToLower(s) == [i \in 1..Len(s) |-> LowerRune(s[i])]

ToUpper(s) == [i \in 1..Len(s) |-> UpperRune(s[i])]

\* strings.Contains
Contains(s, substr) ==
    \E i \in 0..Len(s) : i + Len(substr) <= Len(s) /\ SubSeq(s, i + 1, i + Len(substr)) = substr

(***************************************************************************)
(*                         parse.go : MatchOpType                          *)
(***************************************************************************)
S_join == <<"j", "o", "i", "n">>

S_hash == <<"h", "a", "s", "h">>

S_merge == <<"m", "e", "r", "g", "e">>

S_index == <<"i", "n", "d", "e", "x">>

S_table == <<"t", "a", "b", "l", "e">>

S_reader == <<"r", "e", "a", "d", "e", "r">>

S_scan == <<"s", "c", "a", "n">>

S_lookup == <<"l", "o", "o", "k", "u", "p">>

S_selection == <<"s", "e", "l", "e", "c", "t", "i", "o", "n">>

S_projection == <<"p", "r", "o", "j", "e", "c", "t", "i", "o", "n">>

S_point == <<"p", "o", "i", "n", "t">>

\* a bug of the order: the index family is looked at before the join family
MatchOpTypeIndexFirst(id) ==
    LET x == ToLower(id)
    IN IF Contains(x, S_index)
       THEN IF Contains(x, S_reader) THEN OpTypeIndexReader
            ELSE IF Contains(x, S_scan) THEN OpTypeIndexScan
            ELSE IF Contains(x, S_lookup) THEN OpTypeIndexLookup
            ELSE IF Contains(x, S_join) THEN OpTypeIndexJoin
            ELSE OpTypeUnknown
       ELSE IF Contains(x, S_join)
       THEN IF Contains(x, S_hash) THEN OpTypeHashJoin
            ELSE IF Contains(x, S_merge) THEN OpTypeMergeJoin
            ELSE OpTypeUnknown
       ELSE IF Contains(x, S_table)
       THEN IF Contains(x, S_reader) THEN OpTypeTableReader
            ELSE IF Contains(x, S_scan) THEN OpTypeTableScan
            ELSE OpTypeUnknown
       ELSE IF Contains(x, S_selection) THEN OpTypeSelection
       ELSE IF Contains(x, S_projection) THEN OpTypeProjection
       ELSE IF Contains(x, S_point) THEN OpTypePointGet
       ELSE OpTypeUnknown

MatchOpType(id) ==
    LET x == ToLower(id)
    IN IF Contains(x, S_join)
       THEN IF Contains(x, S_hash) THEN OpTypeHashJoin
            ELSE IF Contains(x, S_merge) THEN OpTypeMergeJoin
            ELSE IF Contains(x, S_index) THEN OpTypeIndexJoin
            ELSE OpTypeUnknown
       ELSE IF Contains(x, S_table)
       THEN IF Contains(x, S_reader) THEN OpTypeTableReader
            ELSE IF Contains(x, S_scan) THEN OpTypeTableScan
            ELSE OpTypeUnknown
       ELSE IF Contains(x, S_index)
       THEN IF Contains(x, S_reader) THEN OpTypeIndexReader
            ELSE IF Contains(x, S_scan) THEN OpTypeIndexScan
            ELSE IF Contains(x, S_lookup) THEN OpTypeIndexLookup
            ELSE OpTypeUnknown
       ELSE IF Contains(x, S_selection) THEN OpTypeSelection
       ELSE IF Contains(x, S_projection) THEN OpTypeProjection
       ELSE IF Contains(x, S_point) THEN OpTypePointGet
       ELSE OpTypeUnknown

\* a call MatchOpType(opID)
DoMatchOpType ==
    /\ pc = "MatchOpType"
    /\ opType' = MatchOpType(opID)
    /\ pc' = "matched"
    /\ UNCHANGED <<opID, cmpVars, parseVars, treeVars>>

(***************************************************************************)
(* The identifiers classified: up to MaxWords words of operator names and  *)
(* the three-word join names, in the casing of the database, in upper case *)
(* or in lower case, followed by the number of the operator.               *)
(***************************************************************************)
MaxWords == 2

W_Index == <<"I", "n", "d", "e", "x">>

W_Hash == <<"H", "a", "s", "h">>

W_Join == <<"J", "o", "i", "n">>

W_Merge == <<"M", "e", "r", "g", "e">>

W_Table == <<"T", "a", "b", "l", "e">>

W_Reader == <<"R", "e", "a", "d", "e", "r">>

W_Scan == <<"S", "c", "a", "n">>

W_Lookup == <<"L", "o", "o", "k", "u", "p">>

W_Selection == <<"S", "e", "l", "e", "c", "t", "i", "o", "n">>

W_Projection == <<"P", "r", "o", "j", "e", "c", "t", "i", "o", "n">>

W_Point == <<"P", "o", "i", "n", "t">>

W_Get == <<"G", "e", "t">>

W_Foo == <<"F", "o", "o">>

OpWords == {W_Index, W_Hash, W_Join, W_Merge, W_Table, W_Reader, W_Scan,
            W_Lookup, W_Selection, W_Projection, W_Point, W_Get, W_Foo}

WordLists == UNION {[1..n -> OpWords] : n \in 0..MaxWords}

NumberedID(ws) == Flatten(ws) \o <<"_", "7">>

\* the three-word names of the database's join operators
JoinNames == {<<W_Index, W_Hash, W_Join>>, <<W_Index, W_Merge, W_Join>>,
              <<W_Index, W_Lookup, W_Join>>}

OpIDs == {NumberedID(ws) : ws \in WordLists \cup JoinNames}

InitMatch ==
    /\ pc = "MatchOpType"
    /\ opID \in OpIDs \cup {ToUpper(id) : id \in OpIDs} \cup {ToLower(id) : id \in OpIDs}
    /\ opType = "none"
    /\ IdleCompare /\ IdleParse /\ IdleTree

NextMatch == DoMatchOpType

SpecMatch == InitMatch /\ [][NextMatch]_vars

(***************************************************************************)
(*                       Properties of the classifier                      *)
(***************************************************************************)
\* two runes equal up to the case of a letter
LetterPairs == {{UpperLetters[k], LowerLetters[k]} : k \in 1..Len(UpperLetters)}

SameLetter(a, b) == a = b \/ {a, b} \in LetterPairs

\* word occurs in s, the case of letters ignored; every s has the empty word
HasWord(s, word) ==
    \E i \in 0..Len(s) :
        /\ i + Len(word) <= Len(s)
        /\ \A k \in 1..Len(word) : SameLetter(s[i + k], word[k])

\* the priority order: <<family word, member word, type>>, first match wins
PriorityRules ==
    << <<S_join, S_hash, OpTypeHashJoin>>,
       <<S_join, S_merge, OpTypeMergeJoin>>,
       <<S_join, S_index, OpTypeIndexJoin>>,
       <<S_join, <<>>, OpTypeUnknown>>,
       <<S_table, S_reader, OpTypeTableReader>>,
       <<S_table, S_scan, OpTypeTableScan>>,
       <<S_table, <<>>, OpTypeUnknown>>,
       <<S_index, S_reader, OpTypeIndexReader>>,
       <<S_index, S_scan, OpTypeIndexScan>>,
       <<S_index, S_lookup, OpTypeIndexLookup>>,
       <<S_index, <<>>, OpTypeUnknown>>,
       <<S_selection, <<>>, OpTypeSelection>>,
       <<S_projection, <<>>, OpTypeProjection>>,
       <<S_point, <<>>, OpTypePointGet>>,
       <<<<>>, <<>>, OpTypeUnknown>> >>

RuleApplies(r, id) == HasWord(id, PriorityRules[r][1]) /\ HasWord(id, PriorityRules[r][2])

FirstRule(id) ==
    CHOOSE r \in 1..Len(PriorityRules) :
        RuleApplies(r, id) /\ \A q \in 1..(r - 1) : ~RuleApplies(q, id)

IndexFamily == {OpTypeIndexReader, OpTypeIndexScan, OpTypeIndexLookup}

(***************************************************************************)
(* C5: MatchOpType returns the result of the fixed priority order on the   *)
(* lower-cased ID, first match wins (join family, then table, then index,  *)
(* then selection, projection, point, else Unknown); an ID with both       *)
(* "index" and "join" is never classified in the index family, and every   *)
(* ID is classified.                                                       *)
(***************************************************************************)
C5_MatchOpTypePriority ==
    pc = "matched" =>
        /\ opType = PriorityRules[FirstRule(opID)][3]
        /\ (HasWord(opID, S_index) /\ HasWord(opID, S_join)) => opType \notin IndexFamily
        /\ opType \in {PriorityRules[r][3] : r \in 1..Len(PriorityRules)}
        /\ opID = NumberedID(<<W_Index, W_Hash, W_Join>>) => opType = OpTypeHashJoin
        /\ opID = NumberedID(<<W_Index, W_Join>>) => opType = OpTypeIndexJoin
        /\ opID = NumberedID(<<W_Table, W_Scan>>) => opType = OpTypeTableScan
        /\ opID = NumberedID(<<W_Index, W_Reader>>) => opType = OpTypeIndexReader
        /\ opID = NumberedID(<<W_Selection>>) => opType = OpTypeSelection
        /\ opID = NumberedID(<<W_Point, W_Get>>) => opType = OpTypePointGet
        /\ opID = NumberedID(<<W_Foo>>) => opType = OpTypeUnknown

\* an upper-case ID holding "index" and "join" and no "hash" or "merge" has
\* been classified as an index join
C5_Witness ==
    /\ pc = "matched"
    /\ opID = ToUpper(NumberedID(<<W_Index, W_Lookup, W_Join>>))
    /\ opType = OpTypeIndexJoin


(***************************************************************************)
(*             Go's strings package, as far as parse.go uses it            *)
(***************************************************************************)
\* unicode.IsSpace on the runes of the model
WhiteSpace == {" ", "\t", "\n", "\r"}

RECURSIVE TrimLeftSpace(_)
TrimLeftSpace(s) ==
    IF s # <<>> /\ Head(s) \in WhiteSpace THEN TrimLeftSpace(Tail(s)) ELSE s

RECURSIVE TrimRightSpace(_)
TrimRightSpace(s) ==
    IF s # <<>> /\ s[Len(s)] \in WhiteSpace
    THEN TrimRightSpace(SubSeq(s, 1, Len(s) - 1))
    ELSE s

\* strings.TrimSpace
TrimSpace(s) == TrimRightSpace(TrimLeftSpace(s))

\* strings.HasSuffix
HasSuffix(s, suffix) ==
    Len(suffix) <= Len(s) /\ SubSeq(s, Len(s) - Len(suffix) + 1, Len(s)) = suffix

\* strings.TrimSuffix: the suffix is removed once
TrimSuffix(s, suffix) ==
    IF HasSuffix(s, suffix) THEN SubSeq(s, 1, Len(s) - Len(suffix)) ELSE s

\* strings.Split(s, sep) for a separator of one rune: one piece more than
\* there are separators in s
RECURSIVE Split(_, _)
Split(s, sep) ==
    IF \A i \in 1..Len(s) : s[i] # sep
    THEN <<s>>
    ELSE LET k == CHOOSE i \in 1..Len(s) : s[i] = sep /\ \A j \in 1..(i - 1) : s[j] # sep
         IN <<SubSeq(s, 1, k - 1)>> \o Split(SubSeq(s, k + 1, Len(s)), sep)

(***************************************************************************)
(*                    parse.go : ParseText and the helpers                 *)
(***************************************************************************)
\* plan.go: the Go strings "v3", "v4" and "unknown"
V3 == <<"v", "3">>

V4 == <<"v", "4">>

VUnknown == <<"u", "n", "k", "n", "o", "w", "n">>

S_estRows == <<"e", "s", "t", "R", "o", "w", "s">>

\* isSeparateLine, lines 96-107
isSeparateLine(line) ==
    LET t == TrimSpace(line)
    IN Len(t) # 0 /\ \A i \in 1..Len(t) : t[i] \in {"+", "-"}

(***************************************************************************)
(* trimAndSplitExplainResult, lines 77-94: the lines from the first        *)
(* separate line to the third, or an error when there are fewer than three *)
(***************************************************************************)
trimAndSplitExplainResult(explainResult) ==
    LET lines == Split(explainResult, "\n")
        seps == {i \in 1..Len(lines) : isSeparateLine(lines[i])}
        \* idx[p]: the p-th separate line
        idx == [p \in 1..3 |->
                   CHOOSE i \in seps : Cardinality({j \in seps : j < i}) = p - 1]
    IN IF Cardinality(seps) < 3
       THEN [err |-> TRUE, lines |-> <<>>]
       ELSE [err |-> FALSE, lines |-> SubSeq(lines, idx[1], idx[3])]

\* identifyVersion, lines 119-124
identifyVersion(header) == IF Contains(header, S_estRows) THEN V4 ELSE V3

\* matchVersion, lines 109-117
matchVersion(version) ==
    LET v == ToLower(version)
    IN IF Contains(v, V3) THEN V3
       ELSE IF Contains(v, V4) THEN V4
       ELSE VUnknown

(***************************************************************************)
(* splitRows, lines 126-134.  cols[1 : len(cols)-1] panics when the row    *)
(* holds no "|": then len(cols) is 1 and the slice bounds are 1 and 0.     *)
(***************************************************************************)
splitRow(row) ==
    LET cols == Split(row, "|")
    IN IF Len(cols) < 2
       THEN [panic |-> TRUE, cols |-> <<>>]
       ELSE [panic |-> FALSE, cols |-> SubSeq(cols, 2, Len(cols) - 1)]

splitRows(rs) ==
    IF \E i \in 1..Len(rs) : splitRow(rs[i]).panic
    THEN [panic |-> TRUE, rows |-> <<>>]
    ELSE [panic |-> FALSE, rows |-> [i \in 1..Len(rs) |-> splitRow(rs[i]).cols]]

\* what a call of ParseText did: the lines extracted, whether Parse was called
\* and with which rows, and what the caller gets: a Plan storing SQL
\* ("plan"), an error and no Plan ("error"), or a run-time panic ("panic")
Outcome(status, lines, ver, s, handed, rs) ==
    [status |-> status, lines |-> lines, ver |-> ver, SQL |-> s,
     handed |-> handed, rows |-> rs]

(***************************************************************************)
(* ParseV3 and ParseV4, the assemblers Parse calls, as section 4.6 and     *)
(* section 7 of the specification describe them: a Plan that stores the    *)
(* SQL text it is given, built from the rows it is given; rows that cannot *)
(* be scanned (no row, a row without columns, rows of different column     *)
(* counts) are a format error.  The tree of the Plan is the subject of     *)
(* findChildRowNo below and is left out of the outcome.                    *)
(***************************************************************************)
ParseVersion(lines, ver, s, rs) ==
    IF \/ rs = <<>>
       \/ \E i \in 1..Len(rs) : Len(rs[i]) = 0 \/ Len(rs[i]) # Len(rs[1])
    THEN Outcome("error", lines, ver, <<>>, TRUE, rs)
    ELSE Outcome("plan", lines, ver, s, TRUE, rs)

\* Parse, lines 22-34
Parse(lines, version, s, explainRows) ==
    LET ver == matchVersion(version)
    IN IF ver = VUnknown
       THEN Outcome("error", lines, ver, <<>>, TRUE, explainRows)
       ELSE ParseVersion(lines, ver, s, explainRows)

(***************************************************************************)
(* ParseText, lines 10-20.  explainLines[3 : len(explainLines)-1] panics   *)
(* when explainLines holds three lines: the bounds are 3 and 2.            *)
(***************************************************************************)
ParseText(s, text) ==
    LET ex == trimAndSplitExplainResult(text)
        explainLines == ex.lines
        sql1 == TrimSpace(s)
        sql2 == TrimSuffix(sql1, <<";">>)
        ver == identifyVersion(explainLines[2])
        split == splitRows(SubSeq(explainLines, 4, Len(explainLines) - 1))
    IN IF ex.err
       THEN Outcome("error", <<>>, VUnknown, <<>>, FALSE, <<>>)
       ELSE IF Len(explainLines) < 4
       THEN Outcome("panic", explainLines, ver, <<>>, FALSE, <<>>)
       ELSE IF split.panic
       THEN Outcome("panic", explainLines, ver, <<>>, FALSE, <<>>)
       ELSE Parse(explainLines, ver, sql2, split.rows)

\* a call ParseText(sql, explainText)
DoParseText ==
    /\ pc = "ParseText"
    /\ parsed' = ParseText(sql, explainText)
    /\ pc' = "parsed"
    /\ UNCHANGED <<sql, explainText, cmpVars, matchVars, treeVars>>

(***************************************************************************)
(* The inputs of ParseText: every SQL text of up to MaxSQLLen runes with   *)
(* one report, and every report of up to MaxLines lines with one SQL text. *)
(***************************************************************************)
MaxSQLLen == 4

MaxLines == 5

SQLRunes == {"a", ";", " "}

SQLTexts == UNION {[1..n -> SQLRunes] : n \in 0..MaxSQLLen}

ReportLines == {<<"+", "-", "+">>, <<" ", "+", "-", "+">>,
                <<"|">> \o S_estRows \o <<"|">>, <<"|", "i", "d", "|">>,
                <<"|", "A", "|">>, <<"|", "A", "|", "B", "|">>, <<"A">>}

RECURSIVE Join(_, _)
Join(lines, sep) ==
    IF lines = <<>> THEN <<>>
    ELSE IF Len(lines) = 1 THEN lines[1]
    ELSE lines[1] \o <<sep>> \o Join(Tail(lines), sep)

Reports == {Join(ls, "\n") : ls \in UNION {[1..n -> ReportLines] : n \in 1..MaxLines}}

GoodReport == Join(<< <<"+", "-", "+">>, <<"|">> \o S_estRows \o <<"|">>,
                      <<"+", "-", "+">>, <<"|", "A", "|">>, <<"+", "-", "+">> >>, "\n")

InitParse ==
    /\ pc = "ParseText"
    /\ \/ sql \in SQLTexts /\ explainText = GoodReport
       \/ sql = <<"a", ";">> /\ explainText \in Reports
    /\ parsed = [status |-> "none"]
    /\ IdleCompare /\ IdleMatch /\ IdleTree

NextParse == DoParseText

SpecParse == InitParse /\ [][NextParse]_vars

(***************************************************************************)
(*                         Properties of ParseText                         *)
(***************************************************************************)
InputLines == Split(explainText, "\n")

BorderLines == {i \in 1..Len(InputLines) : isSeparateLine(InputLines[i])}

\* the p-th border line of the input
Border(p) == CHOOSE i \in BorderLines : Cardinality({j \in BorderLines : j < i}) = p - 1

Pipes(line) == Cardinality({i \in 1..Len(line) : line[i] = "|"})

Bounded(line) == Len(line) >= 2 /\ line[1] = "|" /\ line[Len(line)] = "|"

\* the lines between the second border line and the third
BodyLines == SubSeq(InputLines, Border(2) + 1, Border(3) - 1)

\* the report is structurally malformed
Malformed ==
    \/ Cardinality(BorderLines) < 3
    \/ Border(2) # Border(1) + 2
    \/ \E i \in 1..Len(BodyLines) :
          ~Bounded(BodyLines[i]) \/ Pipes(BodyLines[i]) # Pipes(BodyLines[1])

(***************************************************************************)
(* C6: every structurally malformed report (fewer than three border lines, *)
(* a header that is not exactly one line between the first two border      *)
(* lines, a body line without its bounding "|" or with another column      *)
(* count) makes ParseText return an error and no Plan, never a crash.      *)
(***************************************************************************)
C6_MalformedIsError ==
    (pc = "parsed" /\ Malformed) => parsed.status = "error"

(***************************************************************************)
(* C7: with exactly three border lines, extraction returns the lines from  *)
(* the first border line to the third, and the rows ParseText hands to the *)
(* assembler are the lines between the second and the third border line,   *)
(* in order, as many as there are extracted lines less four; with fewer    *)
(* than three border lines extraction fails with an error.                 *)
(***************************************************************************)
C7_BodyRowsBetweenBorders ==
    pc = "parsed" =>
        /\ Cardinality(BorderLines) < 3 => (parsed.status = "error" /\ ~parsed.handed)
        /\ Cardinality(BorderLines) = 3 =>
              /\ parsed.lines = SubSeq(InputLines, Border(1), Border(3))
              /\ parsed.handed
              /\ Len(parsed.rows) = Len(BodyLines)
              /\ \A i \in 1..Len(BodyLines) :
                    <<"|">> \o Join(parsed.rows[i], "|") \o <<"|">> = BodyLines[i]
              /\ Len(parsed.rows) = Len(parsed.lines) - 4

(***************************************************************************)
(* C9: the SQL stored in the Plan by ParseText is normalized: it has no    *)
(* leading or trailing whitespace and no trailing ";".                     *)
(***************************************************************************)
C9_StoredSQLNormalized ==
    (pc = "parsed" /\ parsed.status = "plan") =>
        LET q == parsed.SQL
        IN q # <<>> =>
              /\ q[1] \notin WhiteSpace
              /\ q[Len(q)] \notin WhiteSpace
              /\ q[Len(q)] # ";"

(***************************************************************************)
(*                       parse.go : findChildRowNo                         *)
(*                                                                         *)
(* Row numbers and columns count from 0 as in the code; a field is a       *)
(* sequence of runes, rune number c of field f being f[c + 1].             *)
(***************************************************************************)
VERT  == "VERT"
TEE   == "TEE"
ELBOW == "ELBOW"

\* c >= 'A' && c <= 'Z'
IsUpperAZ(c) == c \in Range(UpperLetters)

(***************************************************************************)
(* The value of col after the loop of lines 139-144.  "for col = range     *)
(* parent" assigns col the index of each rune in turn: with no rune in     *)
(* 'A'..'Z' the loop ends with col on the last rune, and col stays 0 when  *)
(* parent is empty.                                                        *)
(***************************************************************************)
AnchorCol(parent) ==
    IF \E i \in 1..Len(parent) : IsUpperAZ(parent[i])
    THEN (CHOOSE i \in 1..Len(parent) :
             IsUpperAZ(parent[i]) /\ \A j \in 1..(i - 1) : ~IsUpperAZ(parent[j])) - 1
    ELSE IF Len(parent) = 0 THEN 0 ELSE Len(parent) - 1

\* the loop of lines 149-157 from row i on, acc the rows appended so far;
\* []rune(field)[col] panics on a field of col runes or fewer
RECURSIVE ScanRows(_, _, _, _, _)
ScanRows(rs, idColNo, col, i, acc) ==
    IF i >= Len(rs)
    THEN [status |-> "ok", rows |-> acc]
    ELSE LET field == rs[i + 1][idColNo + 1]
         IN IF col >= Len(field)
            THEN [status |-> "panic", rows |-> <<>>]
            ELSE IF field[col + 1] \in {TEE, ELBOW}
            THEN ScanRows(rs, idColNo, col, i + 1, Append(acc, i))
            ELSE IF field[col + 1] # VERT
            THEN [status |-> "ok", rows |-> acc]
            ELSE ScanRows(rs, idColNo, col, i + 1, acc)

\* findChildRowNo, lines 136-159
findChildRowNo(rs, parent, idColNo) ==
    LET field == rs[parent + 1][idColNo + 1]
        col == AnchorCol(field)
    IN IF col >= Len(field)
       THEN [status |-> "ok", rows |-> <<>>]
       ELSE ScanRows(rs, idColNo, col, parent + 1, <<>>)

(***************************************************************************)
(* The tree builder of section 4.4 of the specification, which the         *)
(* assemblers run on row 0: the children of a row are the rows             *)
(* findChildRowNo returns for it, each built in turn by the same rule.     *)
(* The outcome is the pre-order of the tree built, or the panic of a call. *)
(***************************************************************************)
RECURSIVE BuildFrom(_, _, _)
RECURSIVE BuildAll(_, _, _)
BuildFrom(rs, r, idColNo) ==
    LET ch == findChildRowNo(rs, r, idColNo)
        sub == BuildAll(rs, ch.rows, idColNo)
    IN IF ch.status = "panic" \/ sub.status = "panic"
       THEN [status |-> "panic", rows |-> <<>>]
       ELSE [status |-> "ok", rows |-> <<r>> \o sub.rows]

BuildAll(rs, children, idColNo) ==
    IF children = <<>>
    THEN [status |-> "ok", rows |-> <<>>]
    ELSE LET first == BuildFrom(rs, Head(children), idColNo)
             others == BuildAll(rs, Tail(children), idColNo)
         IN IF first.status = "panic" \/ others.status = "panic"
            THEN [status |-> "panic", rows |-> <<>>]
            ELSE [status |-> "ok", rows |-> first.rows \o others.rows]

\* a call findChildRowNo(rows, p, 0)
DoFindChildRowNo ==
    /\ pc = "rows"
    /\ \E p \in 0..(Len(rows) - 1) :
          /\ parentRowNo' = p
          /\ childRowNo' = findChildRowNo(rows, p, 0)
    /\ pc' = "children"
    /\ UNCHANGED <<rows, built, cmpVars, matchVars, parseVars>>

\* the tree is built from row 0
DoBuildTree ==
    /\ pc = "rows"
    /\ rows # <<>>
    /\ built' = BuildFrom(rows, 0, 0)
    /\ pc' = "built"
    /\ UNCHANGED <<rows, parentRowNo, childRowNo, cmpVars, matchVars, parseVars>>

(***************************************************************************)
(* The rows: up to MaxRows rows of one column, the identifier field, of up *)
(* to MaxFieldLen runes.                                                   *)
(***************************************************************************)
MaxRows == 3

MaxFieldLen == 2

FieldRunes == {VERT, TEE, ELBOW, "A", "a"}

Fields == UNION {[1..n -> FieldRunes] : n \in 0..MaxFieldLen}

InitTree ==
    /\ pc = "rows"
    /\ rows \in UNION {[1..n -> {<<f>> : f \in Fields}] : n \in 1..MaxRows}
    /\ parentRowNo = 0
    /\ childRowNo = [status |-> "none"]
    /\ built = [status |-> "none"]
    /\ IdleCompare /\ IdleMatch /\ IdleParse

NextTree == DoFindChildRowNo \/ DoBuildTree

SpecTree == InitTree /\ [][NextTree]_vars

(***************************************************************************)
(*                       Properties of the tree builder                    *)
(***************************************************************************)
IsLetter(c) == c \in Range(UpperLetters) \cup Range(LowerLetters)

IdField(r) == rows[r + 1][1]

HasLetter(field) == \E i \in 1..Len(field) : IsLetter(field[i])

\* the code-point offset of the first alphabetic character of the field
FirstLetterCol(field) ==
    (CHOOSE i \in 1..Len(field) :
        IsLetter(field[i]) /\ \A j \in 1..(i - 1) : ~IsLetter(field[j])) - 1

\* row r has one of the given runes at column col
RuneAt(r, col, runes) == col < Len(IdField(r)) /\ IdField(r)[col + 1] \in runes

\* the direct children of row p by the anchor-column rule
RuleChildren(p) ==
    IF ~HasLetter(IdField(p))
    THEN {}
    ELSE LET col == FirstLetterCol(IdField(p))
         IN {i \in (p + 1)..(Len(rows) - 1) :
                /\ RuneAt(i, col, {TEE, ELBOW})
                /\ \A k \in (p + 1)..(i - 1) : RuneAt(k, col, {VERT, TEE, ELBOW})}

\* the members of a set of numbers in ascending order
RECURSIVE Ascending(_)
Ascending(S) ==
    IF S = {} THEN <<>>
    ELSE LET m == CHOOSE x \in S : \A y \in S : x <= y
         IN <<m>> \o Ascending(S \ {m})

\* the pre-order of the tree that the anchor-column rule itself gives below row r
RECURSIVE RulePreorder(_)
RulePreorder(r) ==
    LET ch == Ascending(RuleChildren(r))
    IN <<r>> \o Flatten([i \in 1..Len(ch) |-> RulePreorder(ch[i])])

RowOrder == [i \in 1..Len(rows) |-> i - 1]

(***************************************************************************)
(* C4: building the tree from row 0 by findChildRowNo places every row in  *)
(* the tree exactly once, and the pre-order of the tree built is the       *)
(* original row order 0..N-1.  Stated for the rows that the anchor-column  *)
(* rule arranges in a tree of all the rows in their order: the rows of a   *)
(* rendered tree, for which the statement can hold.                        *)
(***************************************************************************)
C4_PreorderIsRowOrder ==
    (pc = "built" /\ RulePreorder(0) = RowOrder) =>
        /\ built.status = "ok"
        /\ built.rows = RowOrder

(***************************************************************************)
(* C10: findChildRowNo returns the direct children by the anchor-column    *)
(* rule, in ascending row order: the anchor column is the offset of the    *)
(* first letter (upper or lower case) of the parent's identifier field; a  *)
(* row below the parent is returned iff it has TEE or ELBOW at the anchor  *)
(* column and every row between has VERT, TEE or ELBOW there; a parent     *)
(* without a letter has no children.                                       *)
(***************************************************************************)
C10_ChildrenByAnchorRule ==
    pc = "children" =>
        /\ childRowNo.status = "ok"
        /\ childRowNo.rows = Ascending(RuleChildren(parentRowNo))

=============================================================================
